---- MODULE Spec2Model ----
(***************************************************************************)
(* aineko-dream: the FastAPI request/response bridge (api/main.py), the    *)
(* shared Kafka consumer/producer it polls through (api/internals/kafka.py)*)
(* and the worker pipeline Prompt -> LLMResponseFormatter ->               *)
(* PromptResponder (nodes.py) that records results and publishes the       *)
(* response cache.                                                         *)
(*                                                                         *)
(* Time is a discrete clock of seconds.  The steps of the API's event loop *)
(* are instantaneous and urgent: the clock only advances when no task on   *)
(* the loop can run (every task is suspended in an await that cannot       *)
(* complete), or through time.sleep(1), which advances it by one second    *)
(* while holding the loop.  The worker nodes are separate processes; their *)
(* steps may be delayed arbitrarily (the LLM call has no latency bound).   *)
(*                                                                         *)
(* The dataset the PromptResponder publishes is taken to be the topic the  *)
(* API polls (template-generator.response_cache).                          *)
(***************************************************************************)
EXTENDS Integers, Sequences, FiniteSets, TLC

\* ---------------------------------------------------------------- bounds
NumTasks == 2        \* HTTP requests the model lets arrive
MaxTime == 400       \* the clock stops advancing by idle waiting beyond this
MaxForeign == 1      \* undecodable records other producers put on the topic
MaxRefresh == 1      \* repo_contents messages the CodeFetcher publishes

\* ------------------------------------------------------ program constants
TIMEOUT == 60 * 5
SLEEP_SECONDS == 1
cleanup_interval == 100

Tasks == 1..NumTasks
Dreams == {"x", "y"}
None == "None"
\* idle waiting advances the clock by one of these amounts
TickSteps == {cleanup_interval, TIMEOUT - 2, TIMEOUT - 1}

TIMEOUT_TEXT == "Timeout while waiting for response."

VARIABLES
    now,                \* time.time()
    pc,                 \* pc[w]: where request handler / wait task w stands
    kind,               \* kind[w]: endpoint that serves w ("test" or "slack")
    start_time,         \* start_time[w] of the wait loop, -1 before it starts
    polls,              \* polls[w]: fetch_latest_message calls w has started
    response,           \* response[w]: value wait_response returned, or None
    posts,              \* posts[w]: texts POSTed to response_url
    user_prompt,        \* topic template-generator.user_prompt (unconsumed part)
    repo_contents,      \* dataset repo_contents (unconsumed part)
    refreshes,          \* CodeFetcher.refresh_code calls so far
    documentation,      \* Prompt.documentation
    llm_response,       \* dataset llm_response (unconsumed part)
    formatted_response, \* dataset formatted_response (unconsumed part)
    state,              \* PromptResponder.state
    last_cleanup_time,  \* PromptResponder.last_cleanup_time
    responder_alive,    \* FALSE once PromptResponder died of an exception
    response_cache,     \* topic template-generator.response_cache (whole log)
    foreign,            \* undecodable records published so far
    cursor,             \* read position of the one shared response_cache consumer
    recorded_at,        \* recorded_at[w]: time update_state first stored w, -1 if never
    present_at_start,   \* present_at_start[w]: w's result was published when its wait began
    seen,               \* seen[w]: how w's latest completed poll ended
    published,          \* ids whose request reached user_prompt
    last_message,       \* the message PromptResponder consumed last
    retries,            \* CodeFetcher.retries
    fpc,                \* where CodeFetcher stands inside refresh_code
    depth,              \* download_github_code calls that have not returned yet
    repo_dict,          \* value the download_github_code call that ended last returned
    attempts,           \* download attempts made by the current refresh_code call
    succeeded           \* one of those attempts downloaded the files

vars == <<now, pc, kind, start_time, polls, response, posts, user_prompt,
          repo_contents, refreshes, documentation, llm_response,
          formatted_response, state, last_cleanup_time, responder_alive,
          response_cache, foreign, cursor, recorded_at, present_at_start,
          seen, published, last_message, retries, fpc, depth, repo_dict,
          attempts, succeeded>>

apiVars == <<pc, kind, start_time, polls, response, posts, cursor, present_at_start,
            seen, published>>
workerVars == <<repo_contents, refreshes, documentation, llm_response,
                formatted_response, state, last_cleanup_time, responder_alive,
                recorded_at, last_message, retries, fpc, depth, repo_dict,
                attempts, succeeded>>
fetchVars == <<retries, fpc, depth, repo_dict, attempts, succeeded>>

\* request_id = str(uuid.uuid4()): one fresh id per request
request_id(w) == w

Init ==
    /\ now = 0
    /\ pc = [w \in Tasks |-> "idle"]
    /\ kind = [w \in Tasks |-> None]
    /\ start_time = [w \in Tasks |-> -1]
    /\ polls = [w \in Tasks |-> 0]
    /\ response = [w \in Tasks |-> None]
    /\ posts = [w \in Tasks |-> <<>>]
    /\ user_prompt = <<>>
    /\ repo_contents = <<>>
    /\ refreshes = 0
    /\ documentation = None
    /\ llm_response = <<>>
    /\ formatted_response = <<>>
    /\ state = <<>>
    /\ last_cleanup_time = 0
    /\ responder_alive = TRUE
    /\ response_cache = <<>>
    /\ foreign = 0
    /\ cursor = 0
    /\ recorded_at = [w \in Tasks |-> -1]
    /\ present_at_start = [w \in Tasks |-> FALSE]
    /\ seen = [w \in Tasks |-> "none"]
    /\ published = {}
    /\ last_message = [type |-> "none", body |-> None]
    /\ retries = 0
    /\ fpc = "idle"
    /\ depth = 0
    /\ repo_dict = None
    /\ attempts = 0
    /\ succeeded = FALSE


\* ------------------------------------------------------------ the event loop
\* time.sleep(1) (main.py:69, main.py:90) is a blocking call: while a task is
\* inside it the single-threaded event loop runs nothing else.
LoopFree == \A u \in Tasks : pc[u] # "sleep"

\* a loop condition that still admits an iteration when exactly TIMEOUT has elapsed
LoopTest_inclusive(t, st) == t - st <= TIMEOUT

\* the loop condition of wait_response / wait_and_post
LoopTest(t, st) == t - st < TIMEOUT

\* the last record on response_cache decodes to a snapshot that holds id r
PresentNow(r) ==
    /\ response_cache # <<>>
    /\ response_cache[Len(response_cache)].bytes = "literal"
    /\ r \in DOMAIN response_cache[Len(response_cache)].message
    /\ r \in DOMAIN state

\* wait_response / wait_and_post up to the first await: start_time is taken,
\* the loop condition is tested and fetch_latest_message is called
BeginWait(w) ==
    /\ start_time' = [start_time EXCEPT ![w] = now]
    /\ present_at_start' = [present_at_start EXCEPT ![w] = PresentNow(request_id(w))]
    /\ IF LoopTest(now, now)
       THEN /\ pc' = [pc EXCEPT ![w] = "update_offset"]
            /\ polls' = [polls EXCEPT ![w] = @ + 1]
       ELSE /\ pc' = [pc EXCEPT ![w] = "timeout408"]
            /\ polls' = polls

\* GET /test/ arrives (the API key was accepted): mint the id, call produce_message
TestRequest(w) ==
    /\ pc[w] = "idle"
    /\ \A u \in Tasks : u < w => pc[u] # "idle"
    /\ LoopFree
    /\ pc' = [pc EXCEPT ![w] = "producing"]
    /\ kind' = [kind EXCEPT ![w] = "test"]
    /\ UNCHANGED <<now, start_time, polls, response, posts, cursor, present_at_start,
                   seen, published, user_prompt, response_cache, foreign>>
    /\ UNCHANGED workerVars

\* POST /slack/ arrives: validate, mint the id, call produce_message
SlackRequest(w, valid) ==
    /\ pc[w] = "idle"
    /\ \A u \in Tasks : u < w => pc[u] # "idle"
    /\ LoopFree
    /\ pc' = [pc EXCEPT ![w] = IF valid THEN "producing" ELSE "rejected401"]
    /\ kind' = [kind EXCEPT ![w] = "slack"]
    /\ UNCHANGED <<now, start_time, polls, response, posts, cursor, present_at_start,
                   seen, published, user_prompt, response_cache, foreign>>
    /\ UNCHANGED workerVars

\* PRODUCER.produce_message: send_and_wait succeeded.  /test/ goes straight into
\* wait_response; /slack/ adds the background task and returns.
ProduceOk(w) ==
    /\ pc[w] = "producing"
    /\ LoopFree
    /\ user_prompt' = Append(user_prompt, [request_id |-> request_id(w), prompt |-> "p"])
    /\ published' = published \cup {request_id(w)}
    /\ IF kind[w] = "test"
       THEN BeginWait(w)
       ELSE /\ pc' = [pc EXCEPT ![w] = "background"]
            /\ UNCHANGED <<start_time, polls, present_at_start>>
    /\ UNCHANGED <<now, kind, response, posts, cursor, seen, response_cache, foreign>>
    /\ UNCHANGED workerVars

\* a handler that ignores the failure of send_and_wait and goes on to wait
ProduceFail_ignored(w) ==
    /\ pc[w] = "producing"
    /\ LoopFree
    /\ IF kind[w] = "test"
       THEN BeginWait(w)
       ELSE /\ pc' = [pc EXCEPT ![w] = "background"]
            /\ UNCHANGED <<start_time, polls, present_at_start>>
    /\ UNCHANGED <<now, kind, response, posts, cursor, seen, published, user_prompt,
                   response_cache, foreign>>
    /\ UNCHANGED workerVars

\* PRODUCER.produce_message: send_and_wait raised; the handler propagates it
ProduceFail(w) ==
    /\ pc[w] = "producing"
    /\ LoopFree
    /\ pc' = [pc EXCEPT ![w] = "publish_error"]
    /\ UNCHANGED <<now, kind, start_time, polls, response, posts, cursor,
                   present_at_start, seen, published, user_prompt, response_cache,
                   foreign>>
    /\ UNCHANGED workerVars

\* the background task wait_and_post starts running
StartBackground(w) ==
    /\ pc[w] = "background"
    /\ LoopFree
    /\ BeginWait(w)
    /\ UNCHANGED <<now, kind, response, posts, cursor, seen, published, user_prompt,
                   response_cache, foreign>>
    /\ UNCHANGED workerVars

\* Consumers.update_offset: seek the partition to its end offset, unless that is 0
update_offset(pos, log) == IF Len(log) = 0 THEN pos ELSE Len(log)

UpdateOffset(w) ==
    /\ pc[w] = "update_offset"
    /\ LoopFree
    /\ cursor' = update_offset(cursor, response_cache)
    /\ pc' = [pc EXCEPT ![w] = "getone"]
    /\ UNCHANGED <<now, kind, start_time, polls, response, posts, present_at_start,
                   seen, published, user_prompt, response_cache, foreign>>
    /\ UNCHANGED workerVars

\* getone() can return: a record lies at the consumer's position
MessageReady == cursor < Len(response_cache)

\* response_cache[request_id]["response"]
HasResponse(entry) == "response" \in DOMAIN entry

\* fetch_latest_message on a consumed record: ast.literal_eval of its bytes,
\* then ["message"]; any exception becomes HTTPException(500)
fetch_latest_message(msg) ==
    IF msg.bytes = "literal"
    THEN [ok |-> TRUE, message |-> msg.message]
    ELSE [ok |-> FALSE, message |-> <<>>]

\* how the poll of id r ended
PollResult(fetched, r) ==
    IF ~fetched.ok THEN "undecodable"
    ELSE IF r \in DOMAIN fetched.message THEN "present"
    ELSE "absent"

\* a loop body that swallows the failure of fetch_latest_message and polls on
LoopBody_swallow(fetched, r) ==
    IF ~fetched.ok THEN "sleep"
    ELSE IF r \in DOMAIN fetched.message
    THEN IF HasResponse(fetched.message[r]) THEN "returned" ELSE "error500"
    ELSE "sleep"

\* where one iteration of the wait loop leaves the task: the exception of
\* fetch_latest_message propagates; a found id is read with ["response"]
\* (KeyError propagates); otherwise time.sleep(1)
LoopBody(fetched, r) ==
    IF ~fetched.ok THEN "error500"
    ELSE IF r \in DOMAIN fetched.message
    THEN IF HasResponse(fetched.message[r]) THEN "returned" ELSE "error500"
    ELSE "sleep"

\* getone() returns the record at the cursor; fetch_latest_message decodes it;
\* the loop body looks the id up and either finishes or enters time.sleep(1)
GetOne(w) ==
    /\ pc[w] = "getone"
    /\ LoopFree
    /\ MessageReady
    /\ cursor' = cursor + 1
    /\ LET fetched == fetch_latest_message(response_cache[cursor + 1])
           r == request_id(w)
           next == LoopBody(fetched, r)
       IN  /\ pc' = [pc EXCEPT ![w] = next]
           /\ seen' = [seen EXCEPT ![w] = PollResult(fetched, r)]
           /\ IF next = "returned" /\ kind[w] = "test"
              THEN response' = [response EXCEPT ![w] = fetched.message[r]["response"]]
              ELSE response' = response
           /\ IF next = "returned" /\ kind[w] = "slack"
              THEN posts' = [posts EXCEPT ![w] = Append(@, fetched.message[r]["response"])]
              ELSE posts' = posts
    /\ UNCHANGED <<now, kind, start_time, polls, present_at_start, published,
                   user_prompt, response_cache, foreign>>
    /\ UNCHANGED workerVars

\* time.sleep(1) returns; the loop condition is tested again
WakeUp(w) ==
    /\ pc[w] = "sleep"
    /\ now' = now + SLEEP_SECONDS
    /\ IF LoopTest(now', start_time[w])
       THEN /\ pc' = [pc EXCEPT ![w] = "update_offset"]
            /\ polls' = [polls EXCEPT ![w] = @ + 1]
            /\ posts' = posts
       ELSE /\ pc' = [pc EXCEPT ![w] = "timeout408"]
            /\ polls' = polls
            /\ posts' = IF kind[w] = "slack"
                        THEN [posts EXCEPT ![w] = Append(@, TIMEOUT_TEXT)]
                        ELSE posts
    /\ UNCHANGED <<kind, start_time, response, cursor, present_at_start,
                   seen, published, user_prompt, response_cache, foreign>>
    /\ UNCHANGED workerVars


\* ------------------------------------------------------------- the worker
\* CodeFetcher.refresh_code: publish the outcome of download_github_code,
\* the repository's files or None
refresh_code(contents) ==
    /\ refreshes < MaxRefresh
    /\ refreshes' = refreshes + 1
    /\ repo_contents' = Append(repo_contents, contents)
    /\ UNCHANGED <<now, user_prompt, response_cache, foreign, documentation,
                   llm_response, formatted_response, state, last_cleanup_time,
                   responder_alive, recorded_at, last_message>>
    /\ UNCHANGED fetchVars
    /\ UNCHANGED apiVars

\* the record Prompt._execute publishes after a successful LLM call
LLMResult(dream, rid) == [type |-> "dict", body |-> [dream |-> dream, request_id |-> rid]]
\* what it publishes on openai.error.APIConnectionError
LLMError == [type |-> "str", body |-> "ERROR"]

\* Prompt._execute: take the latest repo_contents, then one user prompt;
\* llm is the outcome of openai.ChatCompletion.create (a dream, or "ERROR"
\* for APIConnectionError)
PromptExecute(llm) ==
    /\ repo_contents # <<>> \/ user_prompt # <<>>
    /\ LET doc == IF repo_contents # <<>> THEN Head(repo_contents) ELSE documentation
       IN  /\ documentation' = doc
           /\ repo_contents' = IF repo_contents # <<>> THEN Tail(repo_contents) ELSE repo_contents
           /\ IF user_prompt # <<>>
              THEN /\ user_prompt' = Tail(user_prompt)
                   /\ IF doc = None
                      THEN llm_response' = llm_response
                      ELSE llm_response' = Append(llm_response,
                               IF llm = "ERROR" THEN LLMError
                               ELSE LLMResult(llm, Head(user_prompt).request_id))
              ELSE UNCHANGED <<user_prompt, llm_response>>
    /\ UNCHANGED <<now, response_cache, foreign, refreshes, formatted_response, state,
                   last_cleanup_time, responder_alive, recorded_at, last_message>>
    /\ UNCHANGED fetchVars
    /\ UNCHANGED apiVars

\* LLMResponseFormatter._execute: forward the next llm_response unchanged
FormatterExecute ==
    /\ llm_response # <<>>
    /\ formatted_response' = Append(formatted_response, Head(llm_response))
    /\ llm_response' = Tail(llm_response)
    /\ UNCHANGED <<now, user_prompt, response_cache, foreign, repo_contents, refreshes,
                   documentation, state, last_cleanup_time, responder_alive, recorded_at,
                   last_message>>
    /\ UNCHANGED fetchVars
    /\ UNCHANGED apiVars

\* a merge that leaves an id that is already stored as it is
Merge_keep_existing(st, message, t) ==
    [k \in DOMAIN st \cup {message.request_id} |->
        IF k \in DOMAIN st
        THEN st[k]
        ELSE [dream |-> message.dream, request_id |-> message.request_id, timestamp |-> t]]

\* a merge that restamps every stored entry
Merge_restamp_all(st, message, t) ==
    [k \in DOMAIN st \cup {message.request_id} |->
        IF k = message.request_id
        THEN [dream |-> message.dream, request_id |-> message.request_id, timestamp |-> t]
        ELSE [st[k] EXCEPT !.timestamp = t]]

\* a merge that keeps the timestamp the message arrived with
Merge_message_timestamp(st, message, t) ==
    [k \in DOMAIN st \cup {message.request_id} |->
        IF k = message.request_id
        THEN [dream |-> message.dream, request_id |-> message.request_id,
              timestamp |-> IF "timestamp" \in DOMAIN message THEN message.timestamp ELSE t]
        ELSE st[k]]

\* PromptResponder.update_state, first half: store the message under its
\* request_id and stamp it with time.time()
Merge(st, message, t) ==
    [k \in DOMAIN st \cup {message.request_id} |->
        IF k = message.request_id
        THEN [dream |-> message.dream, request_id |-> message.request_id, timestamp |-> t]
        ELSE st[k]]

\* a gate that opens only after more than cleanup_interval
CleanupDue_strict(t, last) == t - last > cleanup_interval

\* second half: the cleanup pass is due
CleanupDue(t, last) == t - last >= cleanup_interval

\* a pass that also evicts the entries whose age is exactly cleanup_interval
Cleanup_strict(st, t) ==
    LET keep == {k \in DOMAIN st : t - st[k].timestamp < cleanup_interval}
    IN  [k \in keep |-> st[k]]

\* a pass that keeps entries up to twice cleanup_interval old
Cleanup_lenient(st, t) ==
    LET keep == {k \in DOMAIN st : t - st[k].timestamp <= 2 * cleanup_interval}
    IN  [k \in keep |-> st[k]]

\* the entries a cleanup pass at time t keeps
Cleanup(st, t) ==
    LET keep == {k \in DOMAIN st : t - st[k].timestamp <= cleanup_interval}
    IN  [k \in keep |-> st[k]]

\* PromptResponder.update_state: the state it leaves
update_state(st, last, message, t) ==
    IF CleanupDue(t, last) THEN Cleanup(Merge(st, message, t), t) ELSE Merge(st, message, t)

\* the record the producer writes for a published state
Snapshot(st) == [bytes |-> "literal", message |-> st]
\* a record ast.literal_eval cannot evaluate
Undecodable == [bytes |-> "garbage", message |-> <<>>]

\* PromptResponder._execute: consume a formatted response, update the state,
\* publish the whole state.  A message that is the string "ERROR" cannot be
\* indexed by "request_id": update_state raises and the node dies.
ResponderExecute ==
    /\ responder_alive
    /\ formatted_response # <<>>
    /\ formatted_response' = Tail(formatted_response)
    /\ last_message' = Head(formatted_response)
    /\ LET m == Head(formatted_response)
       IN  IF m.type # "dict"
           THEN /\ responder_alive' = FALSE
                /\ UNCHANGED <<state, last_cleanup_time, response_cache, recorded_at>>
           ELSE /\ state' = update_state(state, last_cleanup_time, m.body, now)
                /\ last_cleanup_time' = IF CleanupDue(now, last_cleanup_time)
                                        THEN now ELSE last_cleanup_time
                /\ response_cache' = Append(response_cache, Snapshot(state'))
                /\ recorded_at' = [recorded_at EXCEPT ![m.body.request_id] =
                                       IF @ = -1 THEN now ELSE @]
                /\ responder_alive' = TRUE
    /\ UNCHANGED <<now, user_prompt, foreign, repo_contents, refreshes, documentation,
                   llm_response>>
    /\ UNCHANGED fetchVars
    /\ UNCHANGED apiVars

\* another producer puts a record on response_cache that does not decode
ForeignPublish ==
    /\ foreign < MaxForeign
    /\ foreign' = foreign + 1
    /\ response_cache' = Append(response_cache, Undecodable)
    /\ UNCHANGED <<now, user_prompt>>
    /\ UNCHANGED workerVars
    /\ UNCHANGED apiVars

\* ------------------------------------------------------------------ time
\* task w can run as soon as the loop is free
Ready(w) ==
    \/ pc[w] \in {"producing", "background", "update_offset"}
    \/ pc[w] = "getone" /\ MessageReady

\* the clock advances while every task of the loop is suspended
Tick(d) ==
    /\ LoopFree
    /\ \A w \in Tasks : ~Ready(w)
    /\ now + d <= MaxTime
    /\ now' = now + d
    /\ UNCHANGED <<user_prompt, response_cache, foreign>>
    /\ UNCHANGED workerVars
    /\ UNCHANGED apiVars

Next ==
    \/ \E w \in Tasks : TestRequest(w)
    \/ \E w \in Tasks, valid \in BOOLEAN : SlackRequest(w, valid)
    \/ \E w \in Tasks : ProduceOk(w)
    \/ \E w \in Tasks : ProduceFail(w)
    \/ \E w \in Tasks : StartBackground(w)
    \/ \E w \in Tasks : UpdateOffset(w)
    \/ \E w \in Tasks : GetOne(w)
    \/ \E w \in Tasks : WakeUp(w)
    \/ \E contents \in {"files", None} : refresh_code(contents)
    \/ \E llm \in Dreams \cup {"ERROR"} : PromptExecute(llm)
    \/ FormatterExecute
    \/ ResponderExecute
    \/ ForeignPublish
    \/ \E d \in TickSteps : Tick(d)

Spec == Init /\ [][Next]_vars


\* ------------------------------------------------ the response store alone
\* PromptResponder fed directly: any formatted_response message may arrive,
\* also a second one for an id already recorded (a replayed or repeated
\* message) and one that already carries a "timestamp" field.
MaxRecords == 3      \* snapshots the store model lets PromptResponder publish
StoreMaxTime == 200  \* the store model's clock stops here

\* between two messages the clock advances by one of these amounts
StoreTickSteps == {cleanup_interval - 1, cleanup_interval}

\* a result record that arrives with a timestamp field of its own (the
\* store model's producers stamp one second before delivery)
Stamped(dream, rid, ts) ==
    [type |-> "dict", body |-> [dream |-> dream, request_id |-> rid, timestamp |-> ts]]

\* a message reaches the formatted_response dataset
Deliver(msg) ==
    /\ formatted_response = <<>>
    /\ Len(response_cache) < MaxRecords
    /\ formatted_response' = <<msg>>
    /\ UNCHANGED <<now, user_prompt, response_cache, foreign, repo_contents, refreshes,
                   documentation, llm_response, state, last_cleanup_time,
                   responder_alive, recorded_at, last_message>>
    /\ UNCHANGED fetchVars
    /\ UNCHANGED apiVars

\* time passes between two _execute calls of PromptResponder
StoreTick(d) ==
    /\ now + d <= StoreMaxTime
    /\ now' = now + d
    /\ UNCHANGED <<user_prompt, response_cache, foreign>>
    /\ UNCHANGED workerVars
    /\ UNCHANGED apiVars

StoreNext ==
    \/ \E d \in Dreams, r \in Tasks : Deliver(LLMResult(d, r))
    \/ \E d \in Dreams, r \in Tasks : Deliver(Stamped(d, r, now - 1))
    \/ Deliver(LLMError)
    \/ ResponderExecute
    \/ \E d \in StoreTickSteps : StoreTick(d)

StoreSpec == Init /\ [][StoreNext]_vars

\* ---------------------------------------------------- the CodeFetcher alone
\* refresh_code followed through download_github_code, one step per download
\* attempt, sleep and return.  fpc is "idle" between refresh_code calls,
\* "try" when the innermost download_github_code call is about to download,
\* "sleep" inside time.sleep(retry_sleep), "return" when a
\* download_github_code call has just returned repo_dict to its caller, and
\* "raised" once an exception has left refresh_code.
MaxFetches == 3      \* refresh_code calls the CodeFetcher model makes
max_retries == 5
retry_sleep == 5

\* what one pass through the try block can do: download the files, fail in
\* repo.get_contents (repo is bound), or fail in github_client.get_repo
\* (repo is not bound)
Outcomes == {"ok", "contents_error", "repo_error"}

\* refresh_code is entered (from _pre_loop_hook, or from _execute on a GitHub
\* event for the tracked branch) and calls download_github_code
RefreshBegin ==
    /\ fpc = "idle"
    /\ refreshes < MaxFetches
    /\ refreshes' = refreshes + 1
    /\ fpc' = "try"
    /\ depth' = 1
    /\ attempts' = 0
    /\ succeeded' = FALSE
    /\ UNCHANGED <<now, user_prompt, response_cache, foreign, repo_contents,
                   documentation, llm_response, formatted_response, state,
                   last_cleanup_time, responder_alive, recorded_at, last_message,
                   retries, repo_dict>>
    /\ UNCHANGED apiVars

\* one pass of download_github_code from its try block to the retry test
DownloadAttempt(outcome) ==
    /\ fpc = "try"
    /\ attempts' = attempts + 1
    /\ CASE outcome = "ok" ->
              \* return {f.path: ...}
              /\ succeeded' = TRUE
              /\ repo_dict' = "files"
              /\ depth' = depth - 1
              /\ fpc' = "return"
              /\ UNCHANGED retries
         [] outcome = "contents_error" ->
              IF retries + 1 < max_retries
                  THEN /\ retries' = retries + 1
                       /\ fpc' = "sleep"
                       /\ UNCHANGED <<succeeded, repo_dict, depth>>
                  ELSE \* return None
                       /\ repo_dict' = None
                       /\ depth' = depth - 1
                       /\ fpc' = "return"
                       /\ UNCHANGED <<succeeded, retries>>
         [] outcome = "repo_error" ->
              \* the log message after the except block reads the local
              \* variable repo, which was never assigned: UnboundLocalError
              /\ fpc' = "raised"
              /\ depth' = 0
              /\ UNCHANGED <<succeeded, repo_dict, retries>>
    /\ UNCHANGED <<now, user_prompt, response_cache, foreign, repo_contents, refreshes,
                   documentation, llm_response, formatted_response, state,
                   last_cleanup_time, responder_alive, recorded_at, last_message>>
    /\ UNCHANGED apiVars

\* time.sleep(self.retry_sleep), then the nested self.download_github_code()
RetrySleep ==
    /\ fpc = "sleep"
    /\ now' = now + retry_sleep
    /\ depth' = depth + 1
    /\ fpc' = "try"
    /\ UNCHANGED <<user_prompt, response_cache, foreign, repo_contents, refreshes,
                   documentation, llm_response, formatted_response, state,
                   last_cleanup_time, responder_alive, recorded_at, last_message,
                   retries, repo_dict, attempts, succeeded>>
    /\ UNCHANGED apiVars

\* the nested call has returned to `self.download_github_code()`, a statement
\* whose value is dropped; the caller runs off the end of the function and
\* so returns None
DownloadReturn ==
    /\ fpc = "return"
    /\ depth > 0
    /\ repo_dict' = None
    /\ depth' = depth - 1
    /\ UNCHANGED <<now, user_prompt, response_cache, foreign, repo_contents, refreshes,
                   documentation, llm_response, formatted_response, state,
                   last_cleanup_time, responder_alive, recorded_at, last_message,
                   retries, fpc, attempts, succeeded>>
    /\ UNCHANGED apiVars

\* the outermost call has returned: refresh_code publishes cur_msg, whose
\* "contents" is repo_dict
RefreshPublish ==
    /\ fpc = "return"
    /\ depth = 0
    /\ repo_contents' = Append(repo_contents, repo_dict)
    /\ fpc' = "idle"
    /\ UNCHANGED <<now, user_prompt, response_cache, foreign, refreshes,
                   documentation, llm_response, formatted_response, state,
                   last_cleanup_time, responder_alive, recorded_at, last_message,
                   retries, depth, repo_dict, attempts, succeeded>>
    /\ UNCHANGED apiVars

FetchNext ==
    \/ RefreshBegin
    \/ \E outcome \in Outcomes : DownloadAttempt(outcome)
    \/ RetrySleep
    \/ DownloadReturn
    \/ RefreshPublish

FetchSpec == Init /\ [][FetchNext]_vars

\* ================================================================= claims
Started(w) == start_time[w] >= 0
Deadline(w) == start_time[w] + TIMEOUT
Waiting(w) == pc[w] \in {"update_offset", "getone", "sleep"}
\* update_state stored w's result before w's deadline
RecordedInTime(w) == Started(w) /\ recorded_at[w] >= 0 /\ recorded_at[w] < Deadline(w)

\* C1: a waiter whose request id was never recorded never blocks past
\* TIMEOUT plus one poll interval after its wait began: once that much time
\* has passed it has ended with the timeout outcome (408).
C1_NeverRecordedTimesOut ==
    \A w \in Tasks :
        (Started(w) /\ recorded_at[w] = -1 /\ now - start_time[w] > TIMEOUT + SLEEP_SECONDS)
            => pc[w] = "timeout408"

\* C2: if the worker records the result of request R before R's waiter's
\* deadline, the waiter does not time out and is not still waiting when the
\* deadline has passed, however the publication interleaves with its polls.
C2_RecordedResultReturned ==
    \A w \in Tasks :
        RecordedInTime(w) =>
            /\ pc[w] # "timeout408"
            /\ ~(Waiting(w) /\ now >= Deadline(w))

\* C3: a waiter whose result was recorded and published (and not evicted)
\* before it began polling returns on its first poll: the first fetch
\* completes without waiting for another record, there is no sleep and no
\* second poll.
C3_FirstPollReturns ==
    \A w \in Tasks :
        present_at_start[w] =>
            /\ polls[w] <= 1
            /\ pc[w] \in {"update_offset", "getone", "returned"}
            /\ (pc[w] = "getone" => MessageReady)

\* C4: when every one of the concurrent waiters has its result recorded
\* while it waits and before its deadline, every waiter has returned
\* successfully by its deadline.
C4_ConcurrentWaitersResolve ==
    (\A w \in Tasks : RecordedInTime(w) /\ recorded_at[w] > start_time[w])
        => \A w \in Tasks : now >= Deadline(w) => pc[w] = "returned"

\* C6: a poll whose snapshot holds the waiter's id, written by the worker
\* pipeline, ends the wait successfully with the worker's value and raises
\* no error.
C6_PipelineEntryIsRead ==
    \A w \in Tasks : seen[w] = "present" => pc[w] = "returned"

LoopStep(w) ==
    \/ ProduceOk(w)
    \/ ProduceFail(w)
    \/ StartBackground(w)
    \/ UpdateOffset(w)
    \/ GetOne(w)

\* C8: while one waiter is in its delay between two polls, every other
\* task that is able to continue (its await can complete) can take its step.
C8_DelaySuspendsOnlyTheSleeper ==
    \A w, u \in Tasks :
        (w # u /\ pc[w] = "sleep" /\ Ready(u)) => ENABLED LoopStep(u)

\* C9: the timeout outcome is only produced when at least TIMEOUT has
\* elapsed since start_time, and no poll is started once TIMEOUT has elapsed.
C9_HardDeadline ==
    /\ [](\A w \in Tasks : pc[w] = "timeout408" => now - start_time[w] >= TIMEOUT)
    /\ [][\A w \in Tasks : polls'[w] > polls[w] => now' - start_time'[w] < TIMEOUT]_vars

C9_Witness ==
    \E w \in Tasks : pc[w] = "timeout408" /\ now - start_time[w] = TIMEOUT /\ polls[w] >= 1

\* C10: a poll for an id only starts after the request carrying that id was
\* published; a failed publish ends the handler with that failure and starts
\* no wait; the submit steps do not move the response_cache consumer.
C10_SubmitBeforeWait ==
    /\ [](\A w \in Tasks : (polls[w] > 0 \/ Started(w) \/ pc[w] = "background")
                              => request_id(w) \in published)
    /\ [](\A w \in Tasks : pc[w] = "publish_error"
                              => (polls[w] = 0 /\ ~Started(w) /\ request_id(w) \notin published))
    /\ [][\A w \in Tasks : (pc[w] \in {"idle", "producing"} /\ pc'[w] # pc[w])
                              => cursor' = cursor]_vars

C10_Witness ==
    \E w, u \in Tasks : pc[w] = "publish_error" /\ polls[u] > 0


\* ------------------------------------------------- claims about the store
\* PromptResponder._execute consumes a message in this step
ConsumeStep ==
    /\ responder_alive
    /\ formatted_response # <<>>
    /\ formatted_response' = Tail(formatted_response)
\* ... and the message is a result record, which update_state stores
RecordStep == ConsumeStep /\ Head(formatted_response).type = "dict"
Incoming == Head(formatted_response).body
\* the snapshots published so far
Snapshots == {i \in 1..Len(response_cache) : response_cache[i].bytes = "literal"}

\* C11: last write wins: when update_state records value v2 for an id that
\* is stored with another value v1, the store afterwards holds one entry
\* for the id and it carries v2.
C11_LastWriteWins ==
    [][(RecordStep /\ Incoming.request_id \in DOMAIN state
                   /\ state[Incoming.request_id].dream # Incoming.dream)
        => /\ Incoming.request_id \in DOMAIN state'
           /\ state'[Incoming.request_id].dream = Incoming.dream
           /\ state'[Incoming.request_id].request_id = Incoming.request_id]_vars

C11_Witness ==
    /\ last_message.type = "dict"
    /\ last_message.body.request_id \in DOMAIN state
    /\ state[last_message.body.request_id].dream = last_message.body.dream
    /\ \E i \in Snapshots :
          /\ i < Len(response_cache)
          /\ last_message.body.request_id \in DOMAIN response_cache[i].message
          /\ response_cache[i].message[last_message.body.request_id].dream
                # last_message.body.dream

\* the id and value of the incoming record are already stored
SameAgain ==
    /\ RecordStep
    /\ Incoming.request_id \in DOMAIN state
    /\ state[Incoming.request_id].dream = Incoming.dream

\* C12 as claimed: recording the same (id, value) a second time leaves the
\* store, and so the snapshot published from it, as it was after the first.
C12_RecordIdempotent ==
    [][SameAgain => state' = state]_vars

\* C12 as amended: recording the same (id, value) a second time keeps the
\* id with its value and restamps it with the time of the second record;
\* every other entry is either unchanged or removed by the cleanup pass
\* because it is older than cleanup_interval; the store and the snapshot
\* are the same as before only if the second record comes at the same time.
C12_RecordRestamps ==
    [][SameAgain
        => /\ Incoming.request_id \in DOMAIN state'
           /\ DOMAIN state' \subseteq DOMAIN state
           /\ state'[Incoming.request_id]
                 = [state[Incoming.request_id] EXCEPT !.timestamp = now]
           /\ \A k \in DOMAIN state' : k # Incoming.request_id => state'[k] = state[k]
           /\ \A k \in DOMAIN state \ DOMAIN state' :
                 now - state[k].timestamp > cleanup_interval
           /\ (state' = state <=> state[Incoming.request_id].timestamp = now)
           /\ response_cache' = Append(response_cache, Snapshot(state'))]_vars

C12_Witness ==
    /\ last_message.type = "dict"
    /\ last_message.body.request_id \in DOMAIN state
    /\ \E i \in Snapshots :
          /\ i < Len(response_cache)
          /\ last_message.body.request_id \in DOMAIN response_cache[i].message
          /\ response_cache[i].message[last_message.body.request_id].dream
                = last_message.body.dream
          /\ response_cache[i].message[last_message.body.request_id].timestamp
                < state[last_message.body.request_id].timestamp


\* a cleanup pass runs in this step (only a pass moves last_cleanup_time)
PassStep == last_cleanup_time' # last_cleanup_time

\* C13: right after a cleanup pass at time now the store holds no entry
\* older than cleanup_interval, and the pass has removed no entry whose age
\* is at most cleanup_interval.
C13_TTLEviction ==
    [][PassStep
        => /\ \A k \in DOMAIN state' : now - state'[k].timestamp <= cleanup_interval
           /\ \A k \in DOMAIN state :
                 now - state[k].timestamp <= cleanup_interval
                    => (k \in DOMAIN state'
                        /\ (k # Incoming.request_id => state'[k] = state[k]))
           /\ \A k \in DOMAIN state :
                 (now - state[k].timestamp > cleanup_interval /\ k # Incoming.request_id)
                    => k \notin DOMAIN state']_vars

\* a pass has just run and has evicted an entry
C13_Witness ==
    /\ last_cleanup_time = now
    /\ now > 0
    /\ last_message.type = "dict"
    /\ last_message.body.request_id \in DOMAIN state
    /\ \E r \in Tasks : recorded_at[r] >= 0 /\ r \notin DOMAIN state

\* C15: entries are removed and last_cleanup_time is moved only inside
\* update_state; a call made less than cleanup_interval after the last
\* pass removes nothing and leaves last_cleanup_time alone; a call made
\* cleanup_interval or more after it runs the pass and resets
\* last_cleanup_time to the time of the call.
C15_LazyGatedCleanup ==
    [][/\ (~(DOMAIN state \subseteq DOMAIN state') \/ PassStep) => RecordStep
       /\ (RecordStep /\ now - last_cleanup_time < cleanup_interval)
             => (DOMAIN state \subseteq DOMAIN state'
                 /\ last_cleanup_time' = last_cleanup_time)
       /\ (RecordStep /\ now - last_cleanup_time >= cleanup_interval)
             => (last_cleanup_time' = now
                 /\ \A k \in DOMAIN state' : now - state'[k].timestamp <= cleanup_interval)]_vars

\* an update_state call that came too early for a pass has left an entry
\* older than cleanup_interval in the store
C15_Witness ==
    /\ last_message.type = "dict"
    /\ last_message.body.request_id \in DOMAIN state
    /\ state[last_message.body.request_id].timestamp = now
    /\ last_cleanup_time > 0
    /\ last_cleanup_time < now
    /\ \E k \in DOMAIN state : now - state[k].timestamp > cleanup_interval

\* C17: update_state stamps the entry it stores with the time of the
\* merge, whatever timestamp the message arrived with, and a stored
\* timestamp changes only when a record for the same id is merged.
C17_MergeTimeStamp ==
    [][/\ RecordStep => state'[Incoming.request_id].timestamp = now
       /\ \A k \in DOMAIN state \cap DOMAIN state' :
             state'[k].timestamp # state[k].timestamp
                => (RecordStep /\ k = Incoming.request_id)]_vars

\* a message that carried another timestamp has been merged
C17_Witness ==
    /\ last_message.type = "dict"
    /\ "timestamp" \in DOMAIN last_message.body
    /\ last_message.body.request_id \in DOMAIN state
    /\ state[last_message.body.request_id].timestamp # last_message.body.timestamp
    /\ Cardinality(DOMAIN state) > 1

\* C19: when a snapshot is published, every entry in it is younger than
\* twice cleanup_interval.
C19_BoundedStaleness ==
    [][(Len(response_cache') = Len(response_cache) + 1
          /\ response_cache'[Len(response_cache')].bytes = "literal")
        => \A k \in DOMAIN response_cache'[Len(response_cache')].message :
              now - response_cache'[Len(response_cache')].message[k].timestamp
                 < 2 * cleanup_interval]_vars

\* a snapshot was published with an entry one second short of that age
C19_Witness ==
    \E i \in Snapshots :
        \E j, k \in DOMAIN response_cache[i].message :
            response_cache[i].message[j].timestamp
               - response_cache[i].message[k].timestamp = 2 * cleanup_interval - 1


\* --------------------------------------- claims about waiters and the store
\* w's result was recorded and has left the store without w having polled
\* a snapshot that holds it
EvictedUnseen(w) ==
    /\ recorded_at[w] >= 0
    /\ request_id(w) \notin DOMAIN state
    /\ seen[w] # "present"

\* C14: a waiter whose result was recorded but evicted before the waiter
\* polled a snapshot holding it ends like one whose result never arrived:
\* with the timeout outcome, at the latest one poll interval after TIMEOUT.
C14_EvictedTimesOut ==
    \A w \in Tasks :
        (Started(w) /\ EvictedUnseen(w) /\ now - start_time[w] > TIMEOUT + SLEEP_SECONDS)
            => pc[w] = "timeout408"

\* C16: the record a poll examines is the most recent record on the topic
\* at that poll.
C16_PollReadsLatest ==
    [][\A w \in Tasks :
          (pc[w] = "getone" /\ pc'[w] # "getone") => cursor' = Len(response_cache)]_vars

\* C18: PromptResponder publishes exactly one snapshot for every message it
\* consumes, the whole store after update_state, holding the id of the
\* message just recorded; it publishes none without consuming a message.
C18_OneSnapshotPerMessage ==
    [][/\ ConsumeStep
          => /\ response_cache' = Append(response_cache, Snapshot(state'))
             /\ Incoming.request_id \in DOMAIN state'
       /\ (Len(response_cache') > Len(response_cache)
             /\ response_cache'[Len(response_cache')].bytes = "literal")
          => ConsumeStep]_vars

\* C20: wait_and_post makes at most one POST, and exactly one when the wait
\* has ended by finding the id or by the timeout.
C20_OnePostPerWait ==
    \A w \in Tasks :
        kind[w] = "slack" =>
            /\ Len(posts[w]) <= 1
            /\ ((seen[w] = "present" \/ pc[w] = "timeout408") => Len(posts[w]) = 1)


\* ------------------------------------------------ claims about CodeFetcher
\* the outermost download_github_code call has returned repo_dict
DownloadDone == fpc = "return" /\ depth = 0

\* C21: download_github_code returns the dictionary of files whenever one of
\* its attempts, the first or a retry, succeeded; it returns None only after
\* the retries are used up; and it makes at most max_retries attempts.
C21_AnySuccessReturnsFiles ==
    /\ attempts <= max_retries
    /\ DownloadDone =>
          /\ succeeded => repo_dict = "files"
          /\ repo_dict = None => (~succeeded /\ retries + 1 >= max_retries)

====
